---- MODULE Spec2Model ----
(***************************************************************************)
(* webview-x: engine selection (src/src/lib.rs) and the WebView2 window,   *)
(* its window-procedure trampoline and its handle (src/src/wv2.rs).        *)
(*                                                                         *)
(* One thread of control.  pc is the position of that thread: "idle" is    *)
(* the caller's message loop, every other value is a position inside       *)
(* install_webview2, WebViewBuilder::build or WebView2Builder::build.      *)
(* Window messages, asynchronous completions and calls on handles happen   *)
(* only at "idle"; messages the operating system sends synchronously       *)
(* inside CreateWindowExW, ShowWindow and DestroyWindow are part of the    *)
(* step that makes the call.  The installer process runs beside the        *)
(* thread.  A panic of the thread ends in pc = "panicked", or in           *)
(* "loadUrl_none" for the unwrap of an empty cell in loadUrl.  A panic or  *)
(* a crash inside a native callback ends the process: pc is one of         *)
(* Aborted, which names the cause, and nothing of the process is left (its *)
(* windows, boxes and handles are gone with it).  Both are final.          *)
(***************************************************************************)
EXTENDS Naturals, FiniteSets, Sequences

\* Number of WebView2Builder::build calls (closures boxed) in one run.
MaxBuilds == 2
\* Number of explicit exit() calls on one handle (Drop adds one more).
MaxExits == 2

\* Content strings: up to MaxPad characters before a "://" and up to MaxTail
\* after it, and strings without one.
MaxPad == 8
MaxTail == 2

Ids == 1..MaxBuilds

Engines == {"Auto", "Fallback", "Legacy", "WebView2"}

\* The window messages the closure distinguishes (wv2.rs 210-255);
\* WM_DESTROY is handled by the trampoline and never reaches the closure.
Msgs == {"WM_SIZE", "WM_MOVE", "SC_MINIMIZE", "SC_RESTORE", "WM_DPICHANGED", "WM_OTHER"}

\* lib.rs 241: the number of leading bytes searched for "://".
PrefixLen == 10

\* A string is the sequence of its characters (all of one byte).
Pad(n) == [k \in 1..n |-> "a"]

Separator == <<":", "/", "/">>

\* The values of self.url: the empty string, strings without a separator and
\* strings with one separator at every distance from the start and the end.
Urls ==
    {Pad(n) : n \in 0..(MaxPad + MaxTail + 3)}
      \cup {Pad(p) \o Separator \o Pad(t) : p \in 0..MaxPad, t \in 0..MaxTail}

Min(a, b) == IF a <= b THEN a ELSE b

\* str::find(pat).is_some()
find(s, pat) ==
    \E k \in 1..Len(s) : k + Len(pat) - 1 <= Len(s) /\ SubSeq(s, k, k + Len(pat) - 1) = pat

\* lib.rs 241-245, for a non-empty string: "://" is searched in
\* self.url[.. 10.min(self.url.len()-1)].
legacy_content(u) ==
    IF ~find(SubSeq(u, 1, Min(PrefixLen, Len(u) - 1)), Separator) THEN "Html" ELSE "Url"

VARIABLES
    pc,             \* position of the thread
    engine,         \* self.engine of the WebViewBuilder being built
    confirm,        \* install_webview2's confirm argument: "None" or "Some"
    runtime,        \* the evergreen runtime is installed on the machine
    probed,         \* result of the probe made by this call: "none", "ok", "err"
    probes,         \* probes made by this call
    prompts,        \* OK/Cancel prompts shown by this call
    answer,         \* the user's answer to the prompt: "none", "Ok", "Cancel"
    spawnCalls,     \* calls of Command::spawn made by this call
    proc,           \* the installer process: "none", "running", "exited"
    exitCode,       \* its exit status
    ret,            \* install_webview2's return value
    wv2_installed,  \* lib.rs 197
    wv2,            \* lib.rs 237: "unset", "None", "Ok", "Err"
    result,         \* what build() returned
    content,        \* lib.rs 241-245: "none", "Html", "Url"
    received,       \* the callback that took the last message of the page:
                    \* "none", "stub" (lib.rs 254), "echo" (wv2.rs 346-350)
    url,            \* self.url where a run fixes it (SpecContent); Spec draws the
                    \* string at the dispatch and leaves this empty
    evergreenRun,   \* times this build() ran the evergreen construction
    legacyRun,      \* times this build() ran the legacy construction
    nb,             \* closures boxed so far (the next build gets id nb+1)
    cur,            \* id of the WebView2Builder::build call in progress
    wcaller,        \* who called WebView2Builder::build: "build" or "user"
    wres,           \* its result: "none", "Ok", "Err"
    msgbox,         \* message boxes shown by this WebView2Builder::build call
    GLOBAL_F,       \* wv2.rs 96: 0 or the id of the boxed closure
    closure,        \* id -> "none", "boxed", "freed"
    freed,          \* id -> times the box was released
    quit,           \* PostQuitMessage calls
    ub,             \* undefined behaviour has been executed
    lastProc,       \* <<window, closure (0: none), operation>> of the last message
    atQuit,         \* <<closure called, box of f_ptr, slot>> when PostQuitMessage ran
    classRegistered,\* the window class is registered in this process
    window,         \* id -> "none", "live", "destroyed"
    destroyed,      \* id -> times a live window was destroyed
    handle,         \* id -> "none", "live", "dropped"   (the WebView2 value)
    hwnd,           \* id -> self.hwnd: 0 or the window id
    exits,          \* id -> exit() calls made on the handle
    controller,     \* id -> the OnceCell: 0 (empty) or the controller id
    pending,        \* id -> "none", "env", "ctrl", "failed", "done"
    navigated       \* id -> "none", "string", "url"

libVars == <<engine, confirm, probed, probes, prompts, answer, spawnCalls,
             ret, wv2_installed, wv2, result, content, received,
             evergreenRun, legacyRun>>
envVars == <<runtime, url, proc, exitCode>>
bldVars == <<nb, cur, wcaller, wres, msgbox>>
trampVars == <<GLOBAL_F, closure, freed, quit, ub, lastProc, atQuit>>
winVars == <<classRegistered, window, destroyed>>
hdlVars == <<handle, hwnd, exits>>
ctlVars == <<controller, pending, navigated>>
vars == <<pc, libVars, envVars, bldVars, trampVars, winVars, hdlVars, ctlVars>>

\* Nothing is built and no call is in progress, on a machine with or without
\* the runtime.
InitWorld ==
    /\ confirm = "None"
    /\ runtime \in BOOLEAN
    /\ probed = "none" /\ probes = 0 /\ prompts = 0 /\ answer = "none"
    /\ spawnCalls = 0 /\ proc = "none" /\ exitCode = 0 /\ ret = FALSE
    /\ wv2_installed = FALSE /\ result = "none" /\ content = "none"
    /\ received = "none"
    /\ evergreenRun = 0 /\ legacyRun = 0
    /\ nb = 0 /\ cur = 0 /\ wcaller = "none" /\ wres = "none" /\ msgbox = 0
    /\ GLOBAL_F = 0
    /\ closure = [i \in Ids |-> "none"]
    /\ freed = [i \in Ids |-> 0]
    /\ quit = 0 /\ ub = FALSE /\ lastProc = <<0, 0, "none">>
    /\ atQuit = <<0, "none", 0>>
    /\ classRegistered = FALSE
    /\ window = [i \in Ids |-> "none"]
    /\ destroyed = [i \in Ids |-> 0]
    /\ handle = [i \in Ids |-> "none"]
    /\ hwnd = [i \in Ids |-> 0]
    /\ exits = [i \in Ids |-> 0]
    /\ controller = [i \in Ids |-> 0]
    /\ pending = [i \in Ids |-> "none"]
    /\ navigated = [i \in Ids |-> "none"]

Init ==
    /\ pc = "idle"
    /\ engine = "none" /\ wv2 = "unset"
    /\ url = <<>>
    /\ InitWorld

\* The per-call variables of lib.rs as they are between two calls.
ResetCall ==
    /\ engine' = "none" /\ confirm' = "None"
    /\ probed' = "none" /\ probes' = 0 /\ prompts' = 0 /\ answer' = "none"
    /\ spawnCalls' = 0 /\ proc' = "none" /\ exitCode' = 0 /\ ret' = FALSE
    /\ wv2_installed' = FALSE /\ wv2' = "unset" /\ result' = "none"
    /\ content' = "none" /\ received' = "none"
    /\ evergreenRun' = 0 /\ legacyRun' = 0

\* The ways the process aborts inside a native callback:
\*   env_unwrap       wv2.rs 321  env.unwrap() on an error
\*   ctrl_unwrap      wv2.rs 322-351  an unwrap of the controller completion
\*   wnd_proc_unwrap  wv2.rs 217, 230, 236  an unwrap in the window procedure
\*   box_from_null    wv2.rs 118  Box::from_raw of a null pointer, crashing
Aborted == {"env_unwrap", "ctrl_unwrap", "wnd_proc_unwrap", "box_from_null"}

\* The process aborts: nothing of it is left.
Abort(cause) ==
    /\ pc' = cause
    /\ ResetCall
    /\ nb' = 0 /\ cur' = 0 /\ wcaller' = "none" /\ wres' = "none" /\ msgbox' = 0
    /\ GLOBAL_F' = 0
    /\ closure' = [i \in Ids |-> "none"]
    /\ freed' = [i \in Ids |-> 0]
    /\ quit' = 0 /\ lastProc' = <<0, 0, "none">>
    /\ atQuit' = <<0, "none", 0>>
    /\ classRegistered' = FALSE
    /\ ub' = (ub \/ cause = "box_from_null")
    /\ window' = [i \in Ids |-> "none"]
    /\ destroyed' = [i \in Ids |-> 0]
    /\ handle' = [i \in Ids |-> "none"]
    /\ hwnd' = [i \in Ids |-> 0]
    /\ exits' = [i \in Ids |-> 0]
    /\ controller' = [i \in Ids |-> 0]
    /\ pending' = [i \in Ids |-> "none"]
    /\ navigated' = [i \in Ids |-> "none"]
    /\ UNCHANGED <<runtime, url>>

(***************************************************************************)
(* install_webview2  (lib.rs 21-55)                                        *)
(***************************************************************************)

\* iw_probe with the result of the probe ignored: the prompt and the installer
\* run although the runtime is present.
iw_probe_ignored ==
    /\ pc = "iw_probe"
    /\ probes' = probes + 1
    /\ probed' = IF runtime THEN "ok" ELSE "err"
    /\ ret' = ret
    /\ pc' = IF confirm = "Some" THEN "iw_prompt" ELSE "iw_spawn"
    /\ UNCHANGED <<engine, confirm, prompts, answer, spawnCalls,
                   wv2_installed, wv2, result, evergreenRun, legacyRun>>
    /\ UNCHANGED <<envVars, bldVars, trampVars, winVars, hdlVars, ctlVars>>
    /\ UNCHANGED <<content, received>>

\* lib.rs 22, 26, 52-54: the probe; present -> true, absent -> prompt or spawn.
iw_probe ==
    /\ pc = "iw_probe"
    /\ probes' = probes + 1
    /\ probed' = IF runtime THEN "ok" ELSE "err"
    /\ IF runtime
         THEN ret' = TRUE /\ pc' = "iw_ret"
         ELSE ret' = ret /\ pc' = IF confirm = "Some" THEN "iw_prompt" ELSE "iw_spawn"
    /\ UNCHANGED <<engine, confirm, prompts, answer, spawnCalls,
                   wv2_installed, wv2, result, evergreenRun, legacyRun>>
    /\ UNCHANGED <<envVars, bldVars, trampVars, winVars, hdlVars, ctlVars>>
    /\ UNCHANGED <<content, received>>

\* iw_prompt with the answer ignored: the installer runs after a Cancel.
iw_prompt_answer_ignored ==
    /\ pc = "iw_prompt"
    /\ prompts' = prompts + 1
    /\ \E a \in {"Ok", "Cancel"} : answer' = a
    /\ ret' = ret
    /\ pc' = "iw_spawn"
    /\ UNCHANGED <<engine, confirm, probed, probes, spawnCalls,
                   wv2_installed, wv2, result, evergreenRun, legacyRun>>
    /\ UNCHANGED <<envVars, bldVars, trampVars, winVars, hdlVars, ctlVars>>
    /\ UNCHANGED <<content, received>>

\* lib.rs 26-31: the blocking OK/Cancel prompt; Cancel returns false.
iw_prompt ==
    /\ pc = "iw_prompt"
    /\ prompts' = prompts + 1
    /\ \E a \in {"Ok", "Cancel"} :
         /\ answer' = a
         /\ IF a = "Cancel"
              THEN ret' = FALSE /\ pc' = "iw_ret"
              ELSE ret' = ret /\ pc' = "iw_spawn"
    /\ UNCHANGED <<engine, confirm, probed, probes, spawnCalls,
                   wv2_installed, wv2, result, evergreenRun, legacyRun>>
    /\ UNCHANGED <<envVars, bldVars, trampVars, winVars, hdlVars, ctlVars>>
    /\ UNCHANGED <<content, received>>

\* lib.rs 37-44: Command::spawn().unwrap(); a failed spawn panics.
iw_spawn ==
    /\ pc = "iw_spawn"
    /\ spawnCalls' = spawnCalls + 1
    /\ \E ok \in BOOLEAN :
         IF ok THEN proc' = "running" /\ pc' = "iw_write"
               ELSE proc' = proc /\ pc' = "panicked"
    /\ UNCHANGED <<engine, confirm, probed, probes, prompts, answer, ret,
                   wv2_installed, wv2, result, evergreenRun, legacyRun>>
    /\ UNCHANGED <<runtime, url, exitCode, bldVars, trampVars, winVars, hdlVars, ctlVars>>
    /\ UNCHANGED <<content, received>>

\* lib.rs 45-49: the script is written to the child's stdin; a failed write panics.
iw_write ==
    /\ pc = "iw_write"
    /\ \E ok \in BOOLEAN : pc' = IF ok THEN "iw_wait" ELSE "panicked"
    /\ UNCHANGED <<libVars, envVars, bldVars, trampVars, winVars, hdlVars, ctlVars>>

\* The installer process ends, with any exit status; status 0 is an installed runtime.
InstallerExit ==
    /\ proc = "running"
    /\ proc' = "exited"
    /\ \E code \in {0, 1} :
         /\ exitCode' = code
         /\ runtime' = (runtime \/ code = 0)
    /\ UNCHANGED <<pc, url, libVars, bldVars, trampVars, winVars, hdlVars, ctlVars>>

\* iw_wait that polls instead of blocking: it returns while the process runs.
iw_wait_polling ==
    /\ pc = "iw_wait"
    /\ ret' = (exitCode = 0)
    /\ pc' = "iw_ret"
    /\ UNCHANGED <<engine, confirm, probed, probes, prompts, answer, spawnCalls,
                   wv2_installed, wv2, result, evergreenRun, legacyRun>>
    /\ UNCHANGED <<envVars, bldVars, trampVars, winVars, hdlVars, ctlVars>>
    /\ UNCHANGED <<content, received>>

\* lib.rs 50-51: p.wait() blocks until the process has exited; r.success().
iw_wait ==
    /\ pc = "iw_wait"
    /\ proc = "exited"
    /\ ret' = (exitCode = 0)
    /\ pc' = "iw_ret"
    /\ UNCHANGED <<engine, confirm, probed, probes, prompts, answer, spawnCalls,
                   wv2_installed, wv2, result, evergreenRun, legacyRun>>
    /\ UNCHANGED <<envVars, bldVars, trampVars, winVars, hdlVars, ctlVars>>
    /\ UNCHANGED <<content, received>>

(***************************************************************************)
(* The window-procedure trampoline  (wv2.rs 96-134)                        *)
(***************************************************************************)
\* The closure using the controller without looking at the cell.
closure_op_unchecked(f, msg) ==
    CASE msg = "WM_SIZE"       -> "put_bounds"
      [] msg = "WM_MOVE"       -> "notify_moved"
      [] msg = "SC_MINIMIZE"   -> "hide"
      [] msg = "SC_RESTORE"    -> "show"
      [] msg = "WM_DPICHANGED" -> "set_window_pos"
      [] OTHER                 -> "def"

\* wv2.rs 210-255: what the closure of build f does with a message.
closure_op(f, msg) ==
    CASE msg = "WM_SIZE"       -> IF controller[f] # 0 THEN "put_bounds" ELSE "noop"
      [] msg = "WM_MOVE"       -> IF controller[f] # 0 THEN "notify_moved" ELSE "noop"
      [] msg = "SC_MINIMIZE"   -> IF controller[f] # 0 THEN "hide" ELSE "def"
      [] msg = "SC_RESTORE"    -> IF controller[f] # 0 THEN "show" ELSE "def"
      [] msg = "WM_DPICHANGED" -> "set_window_pos"
      [] OTHER                 -> "def"

\* wv2.rs 217, 230, 236: the controller calls whose result is unwrapped.
closure_unwraps(f, msg) ==
    controller[f] # 0 /\ msg \in {"WM_SIZE", "SC_MINIMIZE", "SC_RESTORE"}

\* wv2.rs 124-127, 210-255: the closure at GLOBAL_F is called with the message.
\* Calling a released box is undefined behaviour.
wnd_proc_closure(f, w, msg, npc) ==
    /\ lastProc' = <<w, f, closure_op(f, msg)>>
    /\ ub' = (ub \/ closure[f] # "boxed")
    /\ pc' = npc
    /\ UNCHANGED <<GLOBAL_F, closure, freed, quit, atQuit>>
\* The WM_DESTROY arm calling PostQuitMessage before it releases the box.
wnd_proc_destroy_quits_first(w) ==
    IF GLOBAL_F # 0
      THEN /\ quit' = quit + 1
           /\ atQuit' = <<0, closure[GLOBAL_F], GLOBAL_F>>
           /\ closure' = [closure EXCEPT ![GLOBAL_F] = "freed"]
           /\ freed' = [freed EXCEPT ![GLOBAL_F] = @ + 1]
           /\ GLOBAL_F' = 0
      ELSE /\ quit' = quit + 1
           /\ atQuit' = <<0, "null", GLOBAL_F>>
           /\ GLOBAL_F' = 0
           /\ UNCHANGED <<closure, freed>>

\* The WM_DESTROY arm leaving the released box in the slot.
wnd_proc_destroy_keeps_slot(w) ==
    IF GLOBAL_F # 0
      THEN /\ closure' = [closure EXCEPT ![GLOBAL_F] = "freed"]
           /\ freed' = [freed EXCEPT ![GLOBAL_F] = @ + 1]
           /\ GLOBAL_F' = GLOBAL_F
           /\ quit' = quit + 1
           /\ atQuit' = <<0, closure'[GLOBAL_F], GLOBAL_F'>>
      ELSE /\ GLOBAL_F' = 0
           /\ quit' = quit + 1
           /\ atQuit' = <<0, "null", GLOBAL_F'>>
           /\ UNCHANGED <<closure, freed>>

\* wv2.rs 117-122: the WM_DESTROY arm.  Box::from_raw(f_ptr) is dropped without
\* the closure being called, then the slot is zeroed, then PostQuitMessage is
\* called; atQuit is what PostQuitMessage finds.  With an empty slot the box is
\* made from a null pointer: undefined behaviour, which either does nothing
\* (here) or crashes (wnd_proc_abort).
wnd_proc_destroy(w) ==
    IF GLOBAL_F # 0
      THEN /\ closure' = [closure EXCEPT ![GLOBAL_F] = "freed"]
           /\ freed' = [freed EXCEPT ![GLOBAL_F] = @ + 1]
           /\ GLOBAL_F' = 0
           /\ quit' = quit + 1
           /\ atQuit' = <<0, closure'[GLOBAL_F], GLOBAL_F'>>
      ELSE /\ GLOBAL_F' = 0
           /\ quit' = quit + 1
           /\ atQuit' = <<0, "null", GLOBAL_F'>>
           /\ UNCHANGED <<closure, freed>>

\* The undefined behaviour the WM_DESTROY arm executes: a box made from a null
\* pointer, or a box released a second time.
wnd_proc_destroy_ub == GLOBAL_F = 0 \/ closure[GLOBAL_F] # "boxed"

\* wv2.rs 109-131: the trampoline, for window w and a message other than
\* WM_DESTROY.
wnd_proc(w, msg, npc) ==
    IF GLOBAL_F # 0
      THEN wnd_proc_closure(GLOBAL_F, w, msg, npc)
      ELSE /\ lastProc' = <<w, 0, "def">>
           /\ pc' = npc
           /\ UNCHANGED <<GLOBAL_F, closure, freed, quit, ub, atQuit>>

\* How the trampoline can abort the process on msg: a failed unwrap in the
\* closure, or the null box of WM_DESTROY ("no": it cannot).  The code does not
\* guard the null box; it needs a WM_DESTROY after the slot was emptied, which
\* the single window of the class (wb_register) does not receive.
wnd_proc_abort(msg) ==
    IF msg = "WM_DESTROY"
      THEN IF GLOBAL_F = 0 THEN "box_from_null" ELSE "no"
      ELSE IF GLOBAL_F # 0 /\ closure_unwraps(GLOBAL_F, msg)
             THEN "wnd_proc_unwrap" ELSE "no"

\* DestroyWindow(h): a live window is destroyed; its window procedure receives
\* WM_DESTROY and then WM_NCDESTROY, which finds the slot as WM_DESTROY left
\* it (wv2.rs 115, 124-130; the closure passes it to DefWindowProcW).  A null
\* or stale handle makes the call fail without effect.
DestroyWindow(h, npc) ==
    IF h # 0 /\ window[h] = "live"
      THEN /\ window' = [window EXCEPT ![h] = "destroyed"]
           /\ destroyed' = [destroyed EXCEPT ![h] = @ + 1]
           /\ wnd_proc_destroy(h)
           /\ lastProc' = <<h, GLOBAL_F', "def">>
           /\ ub' = (ub \/ wnd_proc_destroy_ub
                        \/ (GLOBAL_F' # 0 /\ closure'[GLOBAL_F'] # "boxed"))
           /\ pc' = npc
           /\ UNCHANGED classRegistered
      ELSE /\ pc' = npc
           /\ UNCHANGED <<winVars, trampVars>>

DestroyWindow_abort(h) ==
    IF h # 0 /\ window[h] = "live" THEN wnd_proc_abort("WM_DESTROY") ELSE "no"

(***************************************************************************)
(* WebView2Builder::build  (wv2.rs 184-370)                                *)
(***************************************************************************)

\* A direct call of WebView2Builder::build.
WebView2Builder_build ==
    /\ pc = "idle"
    /\ nb < MaxBuilds
    /\ pc' = "wb_box"
    /\ wcaller' = "user"
    /\ UNCHANGED <<nb, cur, wres, msgbox>>
    /\ UNCHANGED <<libVars, envVars, trampVars, winVars, hdlVars, ctlVars>>
\* as_global_wnd_proc with one cell for all builds, emptied by every build.
as_global_wnd_proc_resets_cells ==
    /\ pc = "wb_box"
    /\ nb' = nb + 1
    /\ cur' = nb + 1
    /\ wres' = "none" /\ msgbox' = 0
    /\ controller' = [i \in Ids |-> 0]
    /\ closure' = [closure EXCEPT ![nb + 1] = "boxed"]
    /\ GLOBAL_F' = nb + 1
    /\ pc' = "wb_register"
    /\ UNCHANGED <<wcaller, freed, quit, ub, lastProc, atQuit, pending, navigated>>
    /\ UNCHANGED <<libVars, envVars, winVars, hdlVars>>

\* as_global_wnd_proc that leaves a closure already in the slot in place.
as_global_wnd_proc_keeps_first ==
    /\ pc = "wb_box"
    /\ nb' = nb + 1
    /\ cur' = nb + 1
    /\ wres' = "none" /\ msgbox' = 0
    /\ controller' = [controller EXCEPT ![nb + 1] = 0]
    /\ closure' = [closure EXCEPT ![nb + 1] = "boxed"]
    /\ GLOBAL_F' = IF GLOBAL_F = 0 THEN nb + 1 ELSE GLOBAL_F
    /\ pc' = "wb_register"
    /\ UNCHANGED <<wcaller, freed, quit, ub, lastProc, atQuit, pending, navigated>>
    /\ UNCHANGED <<libVars, envVars, winVars, hdlVars>>

\* wv2.rs 205-263 and 102-108: the controller cell is created empty, the closure
\* capturing it is boxed and its address is written to GLOBAL_F.
as_global_wnd_proc ==
    /\ pc = "wb_box"
    /\ nb' = nb + 1
    /\ cur' = nb + 1
    /\ wres' = "none" /\ msgbox' = 0
    /\ controller' = [controller EXCEPT ![nb + 1] = 0]
    /\ closure' = [closure EXCEPT ![nb + 1] = "boxed"]
    /\ GLOBAL_F' = nb + 1
    /\ pc' = "wb_register"
    /\ UNCHANGED <<wcaller, freed, quit, ub, lastProc, atQuit, pending, navigated>>
    /\ UNCHANGED <<libVars, envVars, winVars, hdlVars>>

\* wv2.rs 257-279: RegisterClassW; 0 is a message box and an error.  The class
\* name is fixed (wv2.rs 257) and the class is never unregistered, so the call
\* fails once the class is registered in the process; it can also fail before.
wb_register ==
    /\ pc = "wb_register"
    /\ \E ok \in IF classRegistered THEN {FALSE} ELSE BOOLEAN :
         IF ok THEN /\ pc' = "wb_create"
                    /\ classRegistered' = TRUE
                    /\ UNCHANGED <<wres, msgbox>>
               ELSE /\ pc' = "wb_ret" /\ wres' = "Err" /\ msgbox' = msgbox + 1
                    /\ UNCHANGED classRegistered
    /\ UNCHANGED <<nb, cur, wcaller, window, destroyed>>
    /\ UNCHANGED <<libVars, envVars, trampVars, hdlVars, ctlVars>>

\* wv2.rs 282-313: CreateWindowExW; the creation messages go through the
\* trampoline; a null window is a message box and an error.
wb_create ==
    /\ pc = "wb_create"
    /\ \/ /\ window' = [window EXCEPT ![cur] = "live"]
          /\ wnd_proc(cur, "WM_OTHER", "wb_show")
          /\ UNCHANGED <<classRegistered, destroyed, wres, msgbox>>
       \/ /\ pc' = "wb_ret" /\ wres' = "Err" /\ msgbox' = msgbox + 1
          /\ UNCHANGED <<winVars, trampVars>>
    /\ UNCHANGED <<nb, cur, wcaller>>
    /\ UNCHANGED <<libVars, envVars, hdlVars, ctlVars>>

\* wv2.rs 314-317: ShowWindow and UpdateWindow; the window is sized.
wb_show ==
    /\ pc = "wb_show"
    /\ \/ /\ wnd_proc(cur, "WM_SIZE", "wb_env")
          /\ UNCHANGED <<bldVars, libVars, envVars, winVars, hdlVars, ctlVars>>
       \/ /\ wnd_proc_abort("WM_SIZE") # "no"
          /\ Abort(wnd_proc_abort("WM_SIZE"))

\* wv2.rs 320-368: the environment is requested; an error is a message box and
\* an error, otherwise the handle is returned with the cell still empty.
wb_env ==
    /\ pc = "wb_env"
    /\ \/ /\ pending' = [pending EXCEPT ![cur] = "env"]
          /\ handle' = [handle EXCEPT ![cur] = "live"]
          /\ hwnd' = [hwnd EXCEPT ![cur] = cur]
          /\ wres' = "Ok"
          /\ UNCHANGED msgbox
       \/ /\ wres' = "Err" /\ msgbox' = msgbox + 1
          /\ UNCHANGED <<pending, handle, hwnd>>
    /\ pc' = "wb_ret"
    /\ UNCHANGED <<nb, cur, wcaller, exits, controller, navigated>>
    /\ UNCHANGED <<libVars, envVars, trampVars, winVars>>

\* The direct caller takes the result.
wb_return ==
    /\ pc = "wb_ret"
    /\ wcaller = "user"
    /\ pc' = "idle"
    /\ wcaller' = "none" /\ wres' = "none" /\ cur' = 0 /\ msgbox' = 0
    /\ UNCHANGED nb
    /\ UNCHANGED <<libVars, envVars, trampVars, winVars, hdlVars, ctlVars>>

\* wv2.rs 320-321, 353: the environment completion.  env.unwrap() panics on an
\* error; create_controller either starts or reports an error to the caller
\* of the completion.
EnvironmentCompleted(i) ==
    /\ pc = "idle"
    /\ pending[i] = "env"
    /\ \/ /\ \E st \in {"ctrl", "failed"} : pending' = [pending EXCEPT ![i] = st]
          /\ UNCHANGED <<pc, controller, navigated>>
          /\ UNCHANGED <<libVars, envVars, bldVars, trampVars, winVars, hdlVars>>
       \/ Abort("env_unwrap")

\* The controller completion storing the controller before it navigates.
ControllerCompleted_stores_first(i) ==
    /\ pc = "idle"
    /\ pending[i] = "ctrl"
    /\ \/ /\ controller' = [controller EXCEPT ![i] = i]
          /\ cur' = i
          /\ pc' = "cc_set"
          /\ UNCHANGED <<nb, wcaller, wres, msgbox, navigated, pending>>
          /\ UNCHANGED <<libVars, envVars, trampVars, winVars, hdlVars>>
       \/ Abort("ctrl_unwrap")

\* wv2.rs 321-344: the controller completion, first part.  Each unwrap panics
\* on an error; otherwise the bounds are set and the configured text is given
\* to navigate_to_string.  The cell is still empty.
ControllerCompleted(i) ==
    /\ pc = "idle"
    /\ pending[i] = "ctrl"
    /\ \/ /\ navigated' = [navigated EXCEPT ![i] = "string"]
          /\ cur' = i
          /\ pc' = "cc_set"
          /\ UNCHANGED <<nb, wcaller, wres, msgbox, controller, pending>>
          /\ UNCHANGED <<libVars, envVars, trampVars, winVars, hdlVars>>
       \/ Abort("ctrl_unwrap")

\* wv2.rs 346-352: the controller completion, second part.  The message handler
\* is added and the controller is stored in the cell; each unwrap panics on an
\* error.
controller_clone_set ==
    /\ pc = "cc_set"
    /\ \/ /\ controller' = [controller EXCEPT ![cur] = cur]
          /\ pending' = [pending EXCEPT ![cur] = "done"]
          /\ cur' = 0
          /\ pc' = "idle"
          /\ UNCHANGED <<nb, wcaller, wres, msgbox, navigated>>
          /\ UNCHANGED <<libVars, envVars, trampVars, winVars, hdlVars>>
       \/ Abort("ctrl_unwrap")

\* wv2.rs 346-350: the page of a webview whose completion has added the
\* message handler sends a message; the handler posts it back to the page.
\* The builder's invoke_handler field (wv2.rs 31) is read nowhere.
WebMessage(i) ==
    /\ pc = "idle"
    /\ pending[i] = "done"
    /\ window[i] = "live"
    /\ received' = "echo"
    /\ UNCHANGED <<pc, engine, confirm, probed, probes, prompts, answer, spawnCalls,
                   ret, wv2_installed, wv2, result, content, evergreenRun, legacyRun>>
    /\ UNCHANGED <<envVars, bldVars, trampVars, winVars, hdlVars, ctlVars>>

(***************************************************************************)
(* The handle and its window  (wv2.rs 373-401)                             *)
(***************************************************************************)

\* exit that leaves the stored window handle in place.
exit_keeps_hwnd(h, npc) ==
    /\ DestroyWindow(hwnd[h], npc)
    /\ hwnd' = hwnd
    /\ exits' = [exits EXCEPT ![h] = @ + 1]

\* wv2.rs 390-395: DestroyWindow(self.hwnd); self.hwnd = 0.
exit(h, npc) ==
    /\ DestroyWindow(hwnd[h], npc)
    /\ hwnd' = [hwnd EXCEPT ![h] = 0]
    /\ exits' = [exits EXCEPT ![h] = @ + 1]

\* An explicit call of exit() on a handle the caller holds.
call_exit(h) ==
    /\ pc = "idle"
    /\ handle[h] = "live"
    /\ exits[h] < MaxExits
    /\ \/ /\ exit(h, "idle")
          /\ UNCHANGED handle
          /\ UNCHANGED <<libVars, envVars, bldVars, ctlVars>>
       \/ /\ DestroyWindow_abort(hwnd[h]) # "no"
          /\ Abort(DestroyWindow_abort(hwnd[h]))

\* wv2.rs 378-382: the handle goes out of scope; Drop calls exit().
drop(h) ==
    /\ pc = "idle"
    /\ handle[h] = "live"
    /\ \/ /\ exit(h, "idle")
          /\ handle' = [handle EXCEPT ![h] = "dropped"]
          /\ UNCHANGED <<libVars, envVars, bldVars, ctlVars>>
       \/ /\ DestroyWindow_abort(hwnd[h]) # "no"
          /\ Abort(DestroyWindow_abort(hwnd[h]))

\* loadUrl that navigates without looking at the cell.
loadUrl_unchecked(h) ==
    /\ pc = "idle"
    /\ handle[h] = "live"
    /\ \/ /\ navigated' = [navigated EXCEPT ![h] = "url"]
          /\ UNCHANGED <<pc, cur>>
       \/ /\ pc' = "panicked"
          /\ UNCHANGED <<cur, navigated>>
    /\ UNCHANGED <<nb, wcaller, wres, msgbox, controller, pending>>
    /\ UNCHANGED <<libVars, envVars, trampVars, winVars, hdlVars>>

\* wv2.rs 397-400: self.wv.get().unwrap().get_webview().unwrap().navigate(url).
\* With an empty cell the first unwrap panics (pc "loadUrl_none", cur the
\* handle); get_webview can fail and panic too; the result of navigate is
\* dropped.
loadUrl(h) ==
    /\ pc = "idle"
    /\ handle[h] = "live"
    /\ IF controller[h] = 0
         THEN /\ pc' = "loadUrl_none"
              /\ cur' = h
              /\ UNCHANGED navigated
         ELSE \/ /\ navigated' = [navigated EXCEPT ![h] = "url"]
                 /\ UNCHANGED <<pc, cur>>
              \/ /\ pc' = "panicked"
                 /\ UNCHANGED <<cur, navigated>>
    /\ UNCHANGED <<nb, wcaller, wres, msgbox, controller, pending>>
    /\ UNCHANGED <<libVars, envVars, trampVars, winVars, hdlVars>>

\* The message loop dispatches a message to a live window.
Message(w, msg) ==
    /\ pc = "idle"
    /\ window[w] = "live"
    /\ \/ /\ wnd_proc(w, msg, "idle")
          /\ UNCHANGED <<libVars, envVars, bldVars, winVars, hdlVars, ctlVars>>
       \/ /\ wnd_proc_abort(msg) # "no"
          /\ Abort(wnd_proc_abort(msg))

\* The user closes the window: WM_CLOSE reaches DefWindowProcW (through the
\* closure's last arm, or directly with an empty slot), which calls
\* DestroyWindow.
UserClose(w) ==
    /\ pc = "idle"
    /\ window[w] = "live"
    /\ \/ /\ DestroyWindow(w, "idle")
          /\ UNCHANGED <<libVars, envVars, bldVars, hdlVars, ctlVars>>
       \/ /\ DestroyWindow_abort(w) # "no"
          /\ Abort(DestroyWindow_abort(w))

(***************************************************************************)
(* WebViewBuilder::build  (lib.rs 196-261)                                 *)
(***************************************************************************)

\* A call of build() on a builder with engine e; msg is the message of
\* Auto(msg) and WebView2(msg).
build(e, msg) ==
    /\ pc = "idle"
    /\ nb < MaxBuilds
    /\ pc' = "match"
    /\ engine' = e
    /\ confirm' = IF e \in {"Auto", "WebView2"} THEN msg ELSE "None"
    /\ UNCHANGED <<probed, probes, prompts, answer, spawnCalls, ret,
                   wv2_installed, wv2, result, evergreenRun, legacyRun>>
    /\ UNCHANGED <<envVars, bldVars, trampVars, winVars, hdlVars, ctlVars>>
    /\ UNCHANGED <<content, received>>

\* build_match whose last arm probes as Fallback does.
build_match_legacy_probes ==
    /\ pc = "match"
    /\ IF engine \in {"WebView2", "Auto"}
         THEN /\ pc' = "iw_probe"
              /\ UNCHANGED <<probed, probes, wv2_installed>>
         ELSE /\ probes' = probes + 1
              /\ probed' = IF runtime THEN "ok" ELSE "err"
              /\ wv2_installed' = runtime
              /\ pc' = "gate"
    /\ UNCHANGED <<engine, confirm, prompts, answer, spawnCalls, ret,
                   wv2, result, evergreenRun, legacyRun>>
    /\ UNCHANGED <<envVars, bldVars, trampVars, winVars, hdlVars, ctlVars>>
    /\ UNCHANGED <<content, received>>

\* lib.rs 197-211: the match on self.engine.  WebView2 and Auto call
\* install_webview2(msg, None); Fallback probes; Legacy (the `_` arm) does
\* neither and leaves wv2_installed false.
build_match ==
    /\ pc = "match"
    /\ CASE engine \in {"WebView2", "Auto"} ->
              /\ pc' = "iw_probe"
              /\ UNCHANGED <<probed, probes, wv2_installed>>
         [] engine = "Fallback" ->
              /\ probes' = probes + 1
              /\ probed' = IF runtime THEN "ok" ELSE "err"
              /\ wv2_installed' = runtime
              /\ pc' = "gate"
         [] OTHER ->
              /\ wv2_installed' = FALSE
              /\ pc' = "gate"
              /\ UNCHANGED <<probed, probes>>
    /\ UNCHANGED <<engine, confirm, prompts, answer, spawnCalls, ret,
                   wv2, result, evergreenRun, legacyRun>>
    /\ UNCHANGED <<envVars, bldVars, trampVars, winVars, hdlVars, ctlVars>>
    /\ UNCHANGED <<content, received>>

\* build_installed where WebView2 goes on after a failed installation, as Auto does.
build_installed_lenient ==
    /\ pc = "iw_ret"
    /\ wv2_installed' = ret /\ pc' = "gate" /\ UNCHANGED result
    /\ UNCHANGED <<engine, confirm, probed, probes, prompts, answer, spawnCalls,
                   ret, wv2, evergreenRun, legacyRun>>
    /\ UNCHANGED <<envVars, bldVars, trampVars, winVars, hdlVars, ctlVars>>
    /\ UNCHANGED <<content, received>>

\* build_installed where Auto returns an error after a failed installation, as
\* WebView2 does.
build_installed_strict ==
    /\ pc = "iw_ret"
    /\ IF ~ret
         THEN result' = "InstallErr" /\ pc' = "done" /\ UNCHANGED wv2_installed
         ELSE wv2_installed' = TRUE /\ pc' = "gate" /\ UNCHANGED result
    /\ UNCHANGED <<engine, confirm, probed, probes, prompts, answer, spawnCalls,
                   ret, wv2, evergreenRun, legacyRun>>
    /\ UNCHANGED <<envVars, bldVars, trampVars, winVars, hdlVars, ctlVars>>
    /\ UNCHANGED <<content, received>>

\* lib.rs 198-206: install_webview2 has returned to build().  WebView2 returns
\* an error on false; Auto takes the value as wv2_installed.
build_installed ==
    /\ pc = "iw_ret"
    /\ IF engine = "WebView2"
         THEN IF ~ret
                THEN result' = "InstallErr" /\ pc' = "done" /\ UNCHANGED wv2_installed
                ELSE wv2_installed' = TRUE /\ pc' = "gate" /\ UNCHANGED result
         ELSE wv2_installed' = ret /\ pc' = "gate" /\ UNCHANGED result
    /\ UNCHANGED <<engine, confirm, probed, probes, prompts, answer, spawnCalls,
                   ret, wv2, evergreenRun, legacyRun>>
    /\ UNCHANGED <<envVars, bldVars, trampVars, winVars, hdlVars, ctlVars>>
    /\ UNCHANGED <<content, received>>

\* lib.rs 213-235 with the binding of wv2 that lib.rs 237 reads: with
\* wv2_installed the evergreen construction (WebView2Builder::build) runs,
\* without it wv2 is None.
build_wv2 ==
    /\ pc = "gate"
    /\ IF wv2_installed
         THEN /\ evergreenRun' = evergreenRun + 1
              /\ wcaller' = "build"
              /\ pc' = "wb_box"
              /\ UNCHANGED wv2
         ELSE /\ wv2' = "None"
              /\ pc' = "dispatch"
              /\ UNCHANGED <<evergreenRun, wcaller>>
    /\ UNCHANGED <<engine, confirm, probed, probes, prompts, answer, spawnCalls,
                   ret, wv2_installed, result, legacyRun>>
    /\ UNCHANGED <<nb, cur, wres, msgbox>>
    /\ UNCHANGED <<envVars, trampVars, winVars, hdlVars, ctlVars>>
    /\ UNCHANGED <<content, received>>

\* The evergreen construction has returned to build(): wv2 is Some(its result).
build_wv2_bind ==
    /\ pc = "wb_ret"
    /\ wcaller = "build"
    /\ wv2' = wres
    /\ pc' = "dispatch"
    /\ wcaller' = "none" /\ wres' = "none"
    /\ UNCHANGED <<engine, confirm, probed, probes, prompts, answer, spawnCalls,
                   ret, wv2_installed, result, evergreenRun, legacyRun>>
    /\ UNCHANGED <<nb, cur, msgbox>>
    /\ UNCHANGED <<envVars, trampVars, winVars, hdlVars, ctlVars>>
    /\ UNCHANGED <<content, received>>

\* lib.rs 237-259: the dispatch on wv2, with u the value of self.url.
\*   Some(wv2): Err(std::io::Error) is the value of build(); the bound value
\*     is dropped at the end of the arm, and dropping a WebView2 calls exit().
\*   None and engine Auto or Legacy: the content is classified (an empty
\*     string panics: len()-1 overflows, or the slice is out of range) and the
\*     legacy builder runs; its error is returned by `?`, its WebView as WV1.
\*   otherwise (None and engine Fallback or WebView2): `wv2?` on None; no
\*     construction runs and no handle is returned.
build_dispatch_of(u) ==
    /\ pc = "dispatch"
    /\ \/ /\ CASE wv2 \in {"Ok", "Err"} ->
                    /\ result' = "IoErr"
                    /\ UNCHANGED <<legacyRun, content>>
                    /\ IF wv2 = "Ok"
                         THEN /\ exit(cur, "done")
                              /\ handle' = [handle EXCEPT ![cur] = "dropped"]
                         ELSE /\ pc' = "done"
                              /\ UNCHANGED <<trampVars, winVars, hdlVars>>
               [] wv2 = "None" /\ engine \in {"Auto", "Legacy"} ->
                    /\ IF u = <<>>
                         THEN /\ pc' = "panicked"
                              /\ UNCHANGED <<content, legacyRun, result>>
                         ELSE /\ content' = legacy_content(u)
                              /\ legacyRun' = legacyRun + 1
                              /\ \E ok \in BOOLEAN :
                                    result' = IF ok THEN "WV1" ELSE "LegacyErr"
                              /\ pc' = "done"
                    /\ UNCHANGED <<trampVars, winVars, hdlVars>>
               [] OTHER ->
                    /\ result' = "NoHandle"
                    /\ pc' = "done"
                    /\ UNCHANGED <<legacyRun, content, trampVars, winVars, hdlVars>>
          /\ UNCHANGED <<engine, confirm, probed, probes, prompts, answer, spawnCalls,
                         ret, wv2_installed, wv2, evergreenRun, received>>
          /\ UNCHANGED <<envVars, bldVars, ctlVars>>
       \/ /\ wv2 = "Ok"
          /\ DestroyWindow_abort(hwnd[cur]) # "no"
          /\ Abort(DestroyWindow_abort(hwnd[cur]))

\* The dispatch of a build() on a builder with any content string.
build_dispatch == \E u \in Urls : build_dispatch_of(u)

\* The dispatch of a build() on the builder whose content string is url.
build_dispatch_url == build_dispatch_of(url)

\* lib.rs 254: the page of the legacy webview that build() returned sends a
\* message; the legacy builder was given `|_,_| { Ok(()) }` as its handler,
\* and that closure takes it.  self.invoke_handler (lib.rs 183-186) is read
\* nowhere.
LegacyMessage ==
    /\ pc = "done"
    /\ result = "WV1"
    /\ received' = "stub"
    /\ UNCHANGED <<pc, engine, confirm, probed, probes, prompts, answer, spawnCalls,
                   ret, wv2_installed, wv2, result, content, evergreenRun, legacyRun>>
    /\ UNCHANGED <<envVars, bldVars, trampVars, winVars, hdlVars, ctlVars>>

\* build() has returned; the caller is back in its message loop.
build_return ==
    /\ pc = "done"
    /\ pc' = "idle"
    /\ ResetCall
    /\ cur' = 0 /\ msgbox' = 0
    /\ UNCHANGED <<nb, wcaller, wres>>
    /\ UNCHANGED <<runtime, url, trampVars, winVars, hdlVars, ctlVars>>

(***************************************************************************)
(* The program                                                             *)
(***************************************************************************)

Next ==
    \/ iw_probe
    \/ iw_prompt
    \/ iw_spawn
    \/ iw_write
    \/ InstallerExit
    \/ iw_wait
    \/ \E e \in Engines, m \in {"None", "Some"} : build(e, m)
    \/ build_match
    \/ build_installed
    \/ build_wv2
    \/ build_wv2_bind
    \/ build_dispatch
    \/ LegacyMessage
    \/ build_return
    \/ WebView2Builder_build
    \/ as_global_wnd_proc
    \/ wb_register
    \/ wb_create
    \/ wb_show
    \/ wb_env
    \/ wb_return
    \/ \E i \in Ids : EnvironmentCompleted(i)
    \/ \E i \in Ids : ControllerCompleted(i)
    \/ controller_clone_set
    \/ \E i \in Ids : WebMessage(i)
    \/ \E h \in Ids : call_exit(h)
    \/ \E h \in Ids : drop(h)
    \/ \E h \in Ids : loadUrl(h)
    \/ \E w \in Ids, msg \in Msgs : Message(w, msg)
    \/ \E w \in Ids : UserClose(w)

Spec == Init /\ [][Next]_vars

\* The dispatch alone, on every content string: build() on a builder with
\* engine Legacy has reached lib.rs 237 (no probe, wv2 is None).
InitContent ==
    /\ pc = "dispatch"
    /\ engine = "Legacy" /\ wv2 = "None"
    /\ url \in Urls
    /\ InitWorld

NextContent == build_dispatch_url

SpecContent == InitContent /\ [][NextContent]_vars

(***************************************************************************)
(* Properties                                                              *)
(***************************************************************************)

\* install_webview2 was called by the build() in progress.
Installing == engine \in {"Auto", "WebView2"}

\* C1: a build() call that does not return the installation error has run
\* exactly one of the two constructions, evergreen or legacy.
C1_ExactlyOnePath ==
    (pc = "done" /\ result # "InstallErr") => evergreenRun + legacyRun = 1

\* C2: with engine Legacy, build() makes no probe, shows no prompt, spawns no
\* installer and does not run the evergreen construction; when it returns it
\* has run the legacy construction.
C2_LegacyNeverProbes ==
    engine = "Legacy" =>
        /\ probes = 0 /\ prompts = 0 /\ spawnCalls = 0 /\ proc = "none"
        /\ evergreenRun = 0
        /\ pc = "done" => legacyRun = 1

C2_Witness ==
    engine = "Legacy" /\ pc = "done" /\ legacyRun = 1 /\ result = "WV1" /\ runtime

\* C3: with engine Fallback, build() shows no prompt and spawns no installer;
\* when it returns it has run the evergreen construction if the probe
\* succeeded and the legacy construction if the probe failed.
C3_FallbackProbesOnly ==
    engine = "Fallback" =>
        /\ prompts = 0 /\ spawnCalls = 0
        /\ pc = "done" =>
             IF probed = "ok" THEN evergreenRun = 1 /\ legacyRun = 0
                              ELSE legacyRun = 1 /\ evergreenRun = 0

\* C4: with engine WebView2, when install_webview2 has returned false, build()
\* returns the installation error and has run neither construction: no
\* closure was boxed, no window and no handle was created by the call.
C4_ForcedInstallFailureIsFatal ==
    (engine = "WebView2" /\ pc = "done" /\ ~ret) =>
        /\ result = "InstallErr"
        /\ evergreenRun = 0 /\ legacyRun = 0
        /\ cur = 0

C4_Witness ==
    /\ engine = "WebView2" /\ pc = "done" /\ ~ret
    /\ spawnCalls = 1 /\ proc = "exited" /\ exitCode = 1

C6_PresentMeansNoInstall ==
    (Installing /\ probed = "ok") =>
        /\ prompts = 0 /\ spawnCalls = 0 /\ proc = "none"
        /\ pc = "iw_ret" => ret

C6_Witness ==
    pc = "iw_ret" /\ probed = "ok" /\ confirm = "Some" /\ ret /\ prompts = 0

\* C7: when the probe failed and a confirmation message was given, the
\* installer is spawned only after the prompt was shown and answered Ok; after
\* a Cancel no installer is spawned and the call returns false.
C7_CancelMeansNoSpawn ==
    (Installing /\ probed = "err" /\ confirm = "Some") =>
        /\ (pc = "iw_spawn" \/ spawnCalls > 0) => (prompts = 1 /\ answer = "Ok")
        /\ answer = "Cancel" =>
             /\ spawnCalls = 0 /\ proc = "none"
             /\ pc = "iw_ret" => ~ret

C7_Witness ==
    /\ pc = "iw_ret" /\ probed = "err" /\ confirm = "Some"
    /\ prompts = 1 /\ answer = "Cancel" /\ ~ret /\ spawnCalls = 0

\* C8: one call of install_webview2 calls spawn at most once; when the probe
\* failed and the installation was not cancelled, the call has returned only
\* after exactly one spawn and after the process has exited, and it returns
\* true exactly when the exit status is zero.
C8_OneBlockingAttempt ==
    /\ spawnCalls <= 1
    /\ (Installing /\ pc = "iw_ret" /\ probed = "err" /\ answer # "Cancel") =>
         /\ spawnCalls = 1
         /\ proc = "exited"
         /\ ret = (exitCode = 0)

C8_Witness ==
    /\ pc = "iw_ret" /\ probed = "err" /\ answer = "Ok"
    /\ spawnCalls = 1 /\ proc = "exited" /\ exitCode = 1 /\ ~ret

\* A step that is a further exit() on handle h (explicit, or made by Drop)
\* leaves every window, every closure and the slot as they were.
SecondExitChangesNothing(h) ==
    (exits[h] >= 1 /\ exits'[h] = exits[h] + 1) =>
        /\ window' = window /\ destroyed' = destroyed
        /\ closure' = closure /\ freed' = freed /\ GLOBAL_F' = GLOBAL_F

\* C9: a window is destroyed at most once; after an exit() on a handle its
\* stored window handle is null; and a further exit() on that handle (an
\* explicit one, or the one Drop makes) destroys no window and releases no
\* closure.
C9_ExitIdempotent ==
    /\ [](\A h \in Ids : destroyed[h] <= 1 /\ (exits[h] >= 1 => hwnd[h] = 0))
    /\ [][\A h \in Ids : SecondExitChangesNothing(h)]_vars

C9_Witness ==
    \E h \in Ids :
        /\ exits[h] = 2 /\ hwnd[h] = 0
        /\ window[h] = "destroyed" /\ destroyed[h] = 1 /\ closure[h] = "freed"

\* C10: the window of a handle is destroyed at most once and the closure boxed
\* for its build() is released at most once; once the handle is gone each
\* has happened exactly once.
C10_ReleasedExactlyOnce ==
    \A h \in Ids :
        /\ destroyed[h] <= 1 /\ freed[h] <= 1
        /\ handle[h] = "dropped" => (destroyed[h] = 1 /\ freed[h] = 1)

\* C11: once the trampoline has handled WM_DESTROY, the closure it released is
\* never called and never released again: the slot never holds a released
\* closure, no box is released twice and no undefined behaviour is executed.
C11_NoUseAfterFree ==
    /\ ~ub
    /\ GLOBAL_F # 0 => closure[GLOBAL_F] = "boxed"
    /\ \A i \in Ids : freed[i] <= 1

\* WM_NCDESTROY, the message after WM_DESTROY, went to DefWindowProcW.
C11_Witness ==
    \E i \in Ids :
        /\ closure[i] = "freed" /\ quit = 1 /\ atQuit[2] = "freed"
        /\ window[lastProc[1]] = "destroyed" /\ lastProc[2] = 0 /\ lastProc[3] = "def"

\* The window of an evergreen build exists before its environment and its
\* controller are requested.
WindowBeforeController == \A i \in Ids : pending[i] # "none" => window[i] # "none"

SeparatorInPrefix(u) ==
    \E k \in 1..(PrefixLen - 2) : k + 2 <= Len(u) /\ SubSeq(u, k, k + 2) = Separator

\* C13: on the legacy path a non-empty content string is classified as a URL
\* exactly when "://" lies entirely within its first 10 characters, and as
\* inline HTML otherwise.
C13_UrlIffSeparatorInPrefix ==
    (pc = "done" /\ url # <<>>) =>
        (content = "Url" <=> SeparatorInPrefix(url))

\* C14: every failure of the environment or controller creation makes build()
\* return an error after a message box: none aborts the process, and none
\* leaves the caller with a handle.
C14_CreationFailureIsReported ==
    /\ pc \notin {"env_unwrap", "ctrl_unwrap"}
    /\ \A i \in Ids : pending[i] = "failed" => handle[i] = "none"
    /\ (pc = "wb_ret" /\ wres = "Err" /\ window[cur] = "live") => msgbox = 1

\* The operations of the closure that use the controller.
ControllerOps == {"put_bounds", "notify_moved", "hide", "show"}

\* C15: while the controller cell is empty, every message (resize, move,
\* minimize, restore and the others) is handled without a controller operation
\* and without a failure: this holds for the cell of the closure that is called
\* and for every message to a window whose own cell is still empty.
C15_NoOpUntilPopulated ==
    /\ (lastProc[2] # 0 /\ lastProc[3] \in ControllerOps) => controller[lastProc[2]] # 0
    /\ \A msg \in Msgs :
         (GLOBAL_F # 0 /\ controller[GLOBAL_F] = 0) =>
             /\ wnd_proc_abort(msg) = "no"
             /\ closure_op(GLOBAL_F, msg) \notin ControllerOps
    /\ \A w \in Ids :
         (window[w] = "live" /\ controller[w] = 0) =>
             /\ GLOBAL_F = 0 \/ controller[GLOBAL_F] = 0
             /\ \A msg \in Msgs : wnd_proc_abort(msg) = "no"

\* A resize or a move reached the closure of a live window whose controller
\* was requested and is not stored yet, and did nothing.
C15_Witness ==
    \E w \in Ids :
        /\ pc = "idle" /\ window[w] = "live" /\ pending[w] \in {"env", "ctrl"}
        /\ controller[w] = 0 /\ lastProc = <<w, w, "noop">>

\* C16: a message received from the page is given to the invoke handler that
\* was set on the builder, on the legacy path and on the evergreen path.
C16_InvokeHandlerIsCalled == received # "none" => received = "invoke_handler"

\* C17: a build() with engine Auto(None) on a machine with the runtime installs
\* nothing and, its evergreen construction having succeeded, returns the
\* evergreen handle; and when the controller completion of an evergreen window
\* is over, the cell is populated and the page was navigated to the configured
\* value as a URL.
C17_AutoWithRuntimeNavigatesToUrl ==
    /\ (pc = "done" /\ engine = "Auto" /\ confirm = "None" /\ probed = "ok" /\ wv2 = "Ok") =>
          /\ prompts = 0 /\ spawnCalls = 0
          /\ result = "WV2" /\ handle[cur] = "live"
    /\ \A i \in Ids : pending[i] = "done" => (controller[i] # 0 /\ navigated[i] = "url")

\* C18: WM_DESTROY with a closure in the slot does not call the closure; when
\* PostQuitMessage runs the box has been released and the slot is empty; and
\* the messages that follow go to DefWindowProcW without a closure.
C18_DestroyReleasesThenQuits ==
    (quit > 0 /\ atQuit[2] # "null") =>
        /\ atQuit = <<0, "freed", 0>>
        /\ lastProc[2] = 0 /\ lastProc[3] = "def"

\* A window was destroyed while a closure was registered, by exit(), by Drop
\* or by the user.
C18_Witness ==
    \E w \in Ids :
        /\ window[w] = "destroyed" /\ quit = 1 /\ GLOBAL_F = 0
        /\ atQuit = <<0, "freed", 0>> /\ lastProc = <<w, 0, "def">>

\* A message is dispatched to the closure in the slot, whatever its window;
\* the message after WM_DESTROY finds the slot empty.
DispatchedToSlot ==
    (lastProc' # lastProc /\ pc' \notin Aborted) =>
        lastProc'[2] = (IF quit' # quit THEN 0 ELSE GLOBAL_F)

\* C19: the slot is empty or holds the closure of the most recent build(), and
\* every message of every window is dispatched to the closure in the slot, not
\* to the closure boxed by the window's own build().
C19_SlotHoldsLatestClosure ==
    /\ [](GLOBAL_F \in {0, nb})
    /\ [][DispatchedToSlot]_vars

\* A message for the window of an earlier build() went to the closure of the
\* latest build(), while the window's own closure is still boxed.
C19_Witness ==
    \E w \in Ids :
        /\ window[w] = "live" /\ closure[w] = "boxed" /\ w # nb
        /\ GLOBAL_F = nb /\ lastProc[1] = w /\ lastProc[2] = nb

\* A loadUrl on a handle whose cell is empty ends in the panic of the unwrap.
LoadUrlFailsOnEmptyCell ==
    \A h \in Ids : (loadUrl(h) /\ controller[h] = 0) => pc' = "loadUrl_none"

\* C20: loadUrl navigates the webview only when the controller cell is
\* populated; called before the controller completion has stored the
\* controller it panics, and the navigation is neither made nor kept for later.
C20_LoadUrlNeedsPopulatedCell ==
    /\ [](/\ \A h \in Ids : navigated[h] = "url" => controller[h] # 0
          /\ pc = "loadUrl_none" => (controller[cur] = 0 /\ navigated[cur] = "none"))
    /\ [][LoadUrlFailsOnEmptyCell]_vars

\* loadUrl was called after build() returned the handle and before the
\* controller was stored.
C20_Witness ==
    /\ pc = "loadUrl_none" /\ handle[cur] = "live" /\ window[cur] = "live"
    /\ pending[cur] \in {"env", "ctrl"} /\ controller[cur] = 0

\* A populated cell keeps its controller while the process lives.
CellKeepsController ==
    pc' \notin Aborted =>
        \A i \in Ids : controller[i] # 0 => controller'[i] = controller[i]

\* C21: the controller cell of a build is empty until the controller
\* completion of that build has stored its controller, it holds no other
\* controller, and once populated it never changes, not even by exit().
C21_CellSingleAssignment ==
    /\ [](\A i \in Ids :
            /\ controller[i] \in {0, i}
            /\ controller[i] # 0 <=> pending[i] = "done")
    /\ [][CellKeepsController]_vars

\* The cell was populated and exit() was then called on the handle.
C21_Witness ==
    \E h \in Ids :
        /\ controller[h] = h /\ pending[h] = "done"
        /\ exits[h] >= 1 /\ hwnd[h] = 0 /\ window[h] = "destroyed"

\* C22: when WebView2Builder::build() has failed at RegisterClassW or at
\* CreateWindowExW, the slot does not hold the closure boxed by that call, that
\* closure is not left boxed, and a live window built earlier still has its own
\* closure in the slot.
C22_FailedBuildLeavesSlot ==
    (pc = "wb_ret" /\ wres = "Err" /\ window[cur] = "none") =>
        /\ GLOBAL_F # cur
        /\ closure[cur] # "boxed"
        /\ \A w \in Ids : window[w] = "live" => GLOBAL_F = w

====
